---- MODULE Spec2Model ----
(***************************************************************************)
(* Matchmaking engine of ironroom: the Redis sorted-set queue with its     *)
(* background pairing worker (services/matchmakingService.js), the         *)
(* request-time pairing against the persisted matchQueue table             *)
(* (routes/matches.js, DB variant), and the tables both read and write.    *)
(* Times are milliseconds since an arbitrary epoch.  User identifiers are  *)
(* the integers 1..NumUsers, ordered as the identifier strings are.        *)
(***************************************************************************)
EXTENDS Integers, Sequences, FiniteSets, TLC

VARIABLES
    routes,             \* which routes/matches.js the app mounts
    now,                \* the wall clock, Date.now()
    privateMatch,       \* table privateMatch: sequence of rows, id = index
    blockedUser,        \* table blockedUser: set of <<blockerId, blockedId>>
    report,             \* table report: set of rows (reporter, target, status)
    suspended,          \* users whose user.isSuspended is true
    matchmaking_queue,  \* Redis sorted set: set of members (parsed entries)
    matchQueue,         \* table matchQueue: set of rows, unique on userId
    pass,               \* invocations of processMatchmakingQueue
    req,                \* invocations of the DB POST /request handler
    resp,               \* last response each user received from POST /request
    scored,             \* result of the last scorer evaluation
    ops,                \* invocations of the end, block, cancel and message handlers
    privateMessage,     \* table privateMessage: set of rows (matchId, senderId)
    supportSessionsCount  \* column supportSessionsCount of table user

vars == << routes, now, privateMatch, blockedUser, report, suspended,
           matchmaking_queue, matchQueue, pass, req, resp, scored, ops,
           privateMessage, supportSessionsCount >>

----------------------------------------------------------------------------
(* Bounds of the model *)

NumUsers == 2
MaxMatches == 2

Users == 1 .. NumUsers

\* the users of the drawn pools and tables
PoolUsers == 1 .. 3

\* every user with a row in table user
AllUsers == Users \cup PoolUsers

\* An optional row is the empty set (null) or a singleton.
The(opt) == CHOOSE r \in opt : TRUE

----------------------------------------------------------------------------
(* utils/constants.js *)

SHARED_INTENT == 50
TIME_WAITING_PER_10S == 1
RECENT_ACTIVITY == 10
RECENT_ACTIVITY_WINDOW_MS == 2 * 60 * 1000
CONVERSATION_FATIGUE == 0 - 40
FATIGUE_WINDOW_DAYS == 7
MATCH_COOLDOWN_MS == 5 * 60 * 1000

DAY_MS == 24 * 60 * 60 * 1000

----------------------------------------------------------------------------
(* JavaScript helpers *)

\* Array.prototype.includes
Includes(arr, x) == \E k \in 1 .. Len(arr) : arr[k] = x

\* Math.abs
Abs(x) == IF x < 0 THEN 0 - x ELSE x

\* Math.floor(a / b) for b > 0
Floor(a, b) == a \div b

----------------------------------------------------------------------------
(* Lookups of the matchmaking worker *)

MatchRows == { privateMatch[k] : k \in 1 .. Len(privateMatch) }

checkBlocked(userAId, userBId) ==
    \/ <<userAId, userBId>> \in blockedUser
    \/ <<userBId, userAId>> \in blockedUser

\* a row of table report; prisma.report.create sets no status, the column
\* starts at the first of REPORT_STATUS
ReportRow(reportedBy, targetUserId, status) ==
    [reportedBy |-> reportedBy, targetUserId |-> targetUserId, status |-> status]

\* the rows prisma.report.findFirst looks among for one of its OR branches:
\* the where clause names the reporter and the target and nothing else
ReportsFrom(reportedBy, targetUserId) ==
    { r \in report : r.reportedBy = reportedBy /\ r.targetUserId = targetUserId }

checkReported(userAId, userBId) ==
    \/ ReportsFrom(userAId, userBId) # {}
    \/ ReportsFrom(userBId, userAId) # {}

checkSuspended(userAId, userBId) ==
    \E id \in {userAId, userBId} : id \in suspended

checkRecentMatch(userAId, userBId, daysBack) ==
    LET since == now - daysBack * DAY_MS
    IN  \E m \in MatchRows :
            /\ \/ (m.userOneId = userAId /\ m.userTwoId = userBId)
               \/ (m.userOneId = userBId /\ m.userTwoId = userAId)
            /\ m.matchedAt >= since

----------------------------------------------------------------------------
\* PairScore with the shared-intent bonus counted once per shared tag
PairScorePerSharedTag(userA, userB, passNow) ==
    LET sharedIntents == SelectSeq(userA.intentTagIds,
                                LAMBDA id : Includes(userB.intentTagIds, id))
        joinDiff == Abs(userA.timestampJoined - userB.timestampJoined)
    IN  Len(sharedIntents) * SHARED_INTENT
          + Floor(passNow - userA.timestampJoined, 10000)
          + Floor(passNow - userB.timestampJoined, 10000)
          + (IF joinDiff < RECENT_ACTIVITY_WINDOW_MS THEN RECENT_ACTIVITY ELSE 0)
          + (IF checkRecentMatch(userA.userId, userB.userId, FATIGUE_WINDOW_DAYS)
             THEN CONVERSATION_FATIGUE ELSE 0)

\* PairScore without the bonus for joins less than 2 minutes apart
PairScoreNoRecency(userA, userB, passNow) ==
    LET sharedIntents == SelectSeq(userA.intentTagIds,
                                LAMBDA id : Includes(userB.intentTagIds, id))
    IN  (IF Len(sharedIntents) > 0 THEN SHARED_INTENT ELSE 0)
          + Floor(passNow - userA.timestampJoined, 10000)
          + Floor(passNow - userB.timestampJoined, 10000)
          + (IF checkRecentMatch(userA.userId, userB.userId, FATIGUE_WINDOW_DAYS)
             THEN CONVERSATION_FATIGUE ELSE 0)

(* Scorer of the background worker: processMatchmakingQueue, lines 47-78. *)
(* passNow is the `now` the pass took at its start; the fatigue lookup    *)
(* reads the clock again.                                                  *)

PairScore(userA, userB, passNow) ==
    LET sharedIntents == SelectSeq(userA.intentTagIds,
                                LAMBDA id : Includes(userB.intentTagIds, id))
        s1 == IF Len(sharedIntents) > 0 THEN SHARED_INTENT ELSE 0
        waitA == passNow - userA.timestampJoined
        waitB == passNow - userB.timestampJoined
        s2 == s1 + Floor(waitA, 10000) * TIME_WAITING_PER_10S
        s3 == s2 + Floor(waitB, 10000) * TIME_WAITING_PER_10S
        joinDiff == Abs(userA.timestampJoined - userB.timestampJoined)
        s4 == IF joinDiff < RECENT_ACTIVITY_WINDOW_MS
              THEN s3 + RECENT_ACTIVITY ELSE s3
        recentMatch == checkRecentMatch(userA.userId, userB.userId,
                                        FATIGUE_WINDOW_DAYS)
    IN  IF recentMatch THEN s4 + CONVERSATION_FATIGUE ELSE s4

(* Scorer of the request handler: POST /request, lines 491-529.  myEntry  *)
(* is the requester's row when it existed before this request, otherwise  *)
(* a row stamped with the current time.                                    *)

CandidateScore(userId, myIntentTagIds, existing, candidate) ==
    LET candidateIntents == candidate.intentTagIds
        sharedIntents == SelectSeq(myIntentTagIds,
                                LAMBDA id : Includes(candidateIntents, id))
        s1 == IF Len(sharedIntents) > 0 THEN SHARED_INTENT ELSE 0
        waitTimeMs == now - candidate.joinedAt
        s2 == s1 + Floor(waitTimeMs, 10000) * TIME_WAITING_PER_10S
        myJoinedAt == IF existing # {} THEN The(existing).joinedAt ELSE now
        joinDiff == Abs(myJoinedAt - candidate.joinedAt)
        s3 == IF joinDiff < RECENT_ACTIVITY_WINDOW_MS
              THEN s2 + RECENT_ACTIVITY ELSE s2
        recentMatch == checkRecentMatch(userId, candidate.userId,
                                        FATIGUE_WINDOW_DAYS)
    IN  IF recentMatch THEN s3 + CONVERSATION_FATIGUE ELSE s3

----------------------------------------------------------------------------
(* The scorers applied to drawn pairs of entries.                          *)

T0 == 10 * DAY_MS
TagLists == { <<>>, <<1>>, <<2>>, <<1, 2>> }
JoinTimes == { T0 - 130000, T0 - 120000, T0 - 35000, T0 - 5000, T0 }
NowTimes == { T0, T0 + 9999, T0 + 10000 }
MatchTimes == { T0 - 7 * DAY_MS - 1, T0 - 7 * DAY_MS, T0 - 2 * DAY_MS }
MatchStatus == { "active", "ended", "blocked" }

QueueEntry(u, tags, ts, last) ==
    [userId |-> u, intentTagIds |-> tags, timestampJoined |-> ts,
     lastMatchTime |-> last]

QueueRow(u, tags, ts) ==
    [userId |-> u, intentTagIds |-> tags, joinedAt |-> ts]

MatchRow(one, two, st, at, endAt) ==
    [userOneId |-> one, userTwoId |-> two, status |-> st,
     matchedAt |-> at, endedAt |-> endAt, durationSeconds |-> {}]

RowOf(e) == QueueRow(e.userId, e.intentTagIds, e.timestampJoined)

\* no end, block, cancel or message handler of the user is running
IdleOp == [pc |-> "idle", matchId |-> 0, targetUserId |-> 0, endedAt |-> 0,
           durationSeconds |-> 0, queueEntries |-> <<>>, last |-> "none",
           via |-> "none"]

\* the two ways into the end and message handlers: the HTTP routes of
\* routes/matches.js and the socket events of websocket/chatServer.js
Paths == {"http", "socket"}

NoScore == [kind |-> "none", a |-> 0, b |-> 0, fwd |-> 0, rev |-> 0]

InitScore ==
    /\ routes = "none"
    /\ now \in NowTimes
    /\ \E ta \in TagLists, tb \in TagLists, ja \in JoinTimes, jb \in JoinTimes,
          ub \in {1, 2} :
          LET a == QueueEntry(1, ta, ja, 0)
              b == QueueEntry(ub, tb, jb, 0)
          IN  /\ a # b
              /\ matchmaking_queue = {a, b}
              /\ matchQueue = IF ub = 1 THEN {} ELSE {RowOf(a), RowOf(b)}
    /\ privateMatch \in
          {<<>>} \cup
          { << MatchRow(one, 3 - one, st, at, {}) >> :
              one \in {1, 2}, st \in MatchStatus, at \in MatchTimes }
    /\ blockedUser = {}
    /\ report = {}
    /\ suspended = {}
    /\ pass = <<>>
    /\ req = <<>>
    /\ resp = [u \in Users |-> "none"]
    /\ scored = NoScore
    /\ ops = [u \in Users |-> IdleOp]
    /\ privateMessage = {}
    /\ supportSessionsCount = [u \in AllUsers |-> 0]

\* The background scorer on an ordered pair of queue members, both ways.
ScoreBackground(userA, userB) ==
    /\ scored' = [kind |-> "bg", a |-> userA, b |-> userB,
                  fwd |-> PairScore(userA, userB, now),
                  rev |-> PairScore(userB, userA, now)]
    /\ UNCHANGED << routes, now, privateMatch, blockedUser, report, suspended,
                    matchmaking_queue, matchQueue, pass, req, resp >>
    /\ UNCHANGED << ops, privateMessage, supportSessionsCount >>

\* The request-time scorer with rowA as the requester's existing row and
\* rowB the candidate, and with the roles exchanged.
ScoreRequest(rowA, rowB) ==
    /\ scored' = [kind |-> "req", a |-> rowA, b |-> rowB,
                  fwd |-> CandidateScore(rowA.userId, rowA.intentTagIds,
                                         {rowA}, rowB),
                  rev |-> CandidateScore(rowB.userId, rowB.intentTagIds,
                                         {rowB}, rowA)]
    /\ UNCHANGED << routes, now, privateMatch, blockedUser, report, suspended,
                    matchmaking_queue, matchQueue, pass, req, resp >>
    /\ UNCHANGED << ops, privateMessage, supportSessionsCount >>

\* Both scorers on the same pair at the same time: the background scorer on
\* the members userA and userB, and the request-time scorer for a request of
\* userA, whose row exists, with userB's row as the candidate.
ScoreBoth(userA, userB) ==
    /\ RowOf(userA) \in matchQueue
    /\ RowOf(userB) \in matchQueue
    /\ scored' = [kind |-> "both", a |-> userA, b |-> userB,
                  fwd |-> PairScore(userA, userB, now),
                  rev |-> CandidateScore(userA.userId, userA.intentTagIds,
                                         {RowOf(userA)}, RowOf(userB))]
    /\ UNCHANGED << routes, now, privateMatch, blockedUser, report, suspended,
                    matchmaking_queue, matchQueue, pass, req, resp >>
    /\ UNCHANGED << ops, privateMessage, supportSessionsCount >>

NextScore ==
    \/ \E userA \in matchmaking_queue, userB \in matchmaking_queue :
          userA # userB /\ ScoreBackground(userA, userB)
    \/ \E rowA \in matchQueue, rowB \in matchQueue :
          rowA # rowB /\ ScoreRequest(rowA, rowB)
    \/ \E userA \in matchmaking_queue, userB \in matchmaking_queue :
          userA # userB /\ ScoreBoth(userA, userB)

SpecScore == InitScore /\ [][NextScore]_vars

----------------------------------------------------------------------------
(* The running system.  The app mounts one of the two routes/matches.js:    *)
(* "redis" enqueues into the sorted set the background worker scans, "db"  *)
(* pairs at request time against the matchQueue table.  server.js starts   *)
(* the worker in both.                                                     *)

TickMs == 300 * 1000
MaxTicks == 1
MaxFacts == 1
MaxPasses == 1

Passes == 1 .. MaxPasses

\* prisma.userIntent.findMany({ where: { userId } }): the user's intent tags
userIntents(userId) ==
    CASE userId = 1 -> <<1, 2>>
      [] userId = 2 -> <<1>>
      [] OTHER -> <<2>>

IdleReq == [pc |-> "idle", lastMatchTime |-> 0]
IdleDbReq == [pc |-> "idle", existing |-> {}, waitingUsers |-> <<>>, idx |-> 0,
              bestMatch |-> {}, bestScore |-> 0]
IdlePass == [pc |-> "idle", entries |-> <<>>, passNow |-> 0, i |-> 0, j |-> 0,
             bestPair |-> {}, bestScore |-> 0,
             afterFailure |-> FALSE, signalled |-> {}]

Init ==
    /\ routes \in {"redis", "db"}
    /\ now = T0
    /\ privateMatch = <<>>
    /\ blockedUser = {}
    /\ report = {}
    /\ suspended = {}
    /\ matchmaking_queue = {}
    /\ matchQueue = {}
    /\ pass = [k \in Passes |-> IdlePass]
    /\ req = [u \in Users |-> IF routes = "redis" THEN IdleReq ELSE IdleDbReq]
    /\ resp = [u \in Users |-> "none"]
    /\ scored = NoScore
    /\ ops = [u \in Users |-> IdleOp]
    /\ privateMessage = {}
    /\ supportSessionsCount = [u \in AllUsers |-> 0]

\* prisma.privateMatch.findFirst: an active match the user takes part in
ActiveMatchesOf(userId) ==
    { k \in 1 .. Len(privateMatch) :
        /\ privateMatch[k].status = "active"
        /\ userId \in {privateMatch[k].userOneId, privateMatch[k].userTwoId} }

\* prisma.privateMatch.findFirst with status 'ended', orderBy endedAt desc
EndedMatchesOf(userId) ==
    { k \in 1 .. Len(privateMatch) :
        /\ privateMatch[k].status = "ended"
        /\ userId \in {privateMatch[k].userOneId, privateMatch[k].userTwoId} }

lastMatch(userId) ==
    LET ended == EndedMatchesOf(userId)
    IN  IF ended = {} THEN {}
        ELSE { privateMatch[CHOOSE k \in ended :
                 \A l \in ended :
                    The(privateMatch[l].endedAt) <= The(privateMatch[k].endedAt)] }

\* InCooldown with the end of the window counted as inside it
InCooldownInclusive(last) ==
    /\ last # {}
    /\ The(last).endedAt # {}
    /\ now <= The(The(last).endedAt) + MATCH_COOLDOWN_MS

\* the cooldown test of POST /request: new Date() < cooldownEnd
InCooldown(last) ==
    /\ last # {}
    /\ The(last).endedAt # {}
    /\ now < The(The(last).endedAt) + MATCH_COOLDOWN_MS

(* POST /api/matches/request, Redis variant (routes/matches.js 60-123).    *)
(* authenticate and requireNotSuspended have let the request through.      *)
(* First the two lookups, then, after further awaits, the zadd.            *)
RequestCheck(userId) ==
    /\ routes = "redis"
    /\ req[userId].pc = "idle"
    /\ userId \notin suspended
    /\ IF ActiveMatchesOf(userId) # {}
       THEN /\ resp' = [resp EXCEPT ![userId] = "conflict"]
            /\ UNCHANGED req
       ELSE IF InCooldown(lastMatch(userId))
       THEN /\ resp' = [resp EXCEPT ![userId] = "cooldown"]
            /\ UNCHANGED req
       ELSE /\ req' = [req EXCEPT ![userId] =
                         [pc |-> "zadd",
                          lastMatchTime |->
                             IF lastMatch(userId) # {}
                             THEN The(The(lastMatch(userId)).endedAt) ELSE 0]]
            /\ resp' = [resp EXCEPT ![userId] = "pending"]
    /\ UNCHANGED << routes, now, privateMatch, blockedUser, report, suspended,
                    matchmaking_queue, matchQueue, pass, scored >>
    /\ UNCHANGED << ops, privateMessage, supportSessionsCount >>

RequestZadd(userId) ==
    /\ routes = "redis"
    /\ req[userId].pc = "zadd"
    /\ matchmaking_queue' = matchmaking_queue \cup
          { QueueEntry(userId, userIntents(userId), now,
                       req[userId].lastMatchTime) }
    /\ req' = [req EXCEPT ![userId] = IdleReq]
    /\ resp' = [resp EXCEPT ![userId] = "waiting"]
    /\ UNCHANGED << routes, now, privateMatch, blockedUser, report, suspended,
                    matchQueue, pass, scored >>
    /\ UNCHANGED << ops, privateMessage, supportSessionsCount >>

(* POST /api/matches/cancel, Redis variant (routes/matches.js 129-146),   *)
(* run without interleaving by a user who has a member: every member      *)
(* whose userId is the caller's is removed.                                *)
Cancel(userId) ==
    /\ routes = "redis"
    /\ \E e \in matchmaking_queue : e.userId = userId
    /\ matchmaking_queue' = { e \in matchmaking_queue : e.userId # userId }
    /\ UNCHANGED << routes, now, privateMatch, blockedUser, report, suspended,
                    matchQueue, pass, req, resp, scored >>
    /\ UNCHANGED << ops, privateMessage, supportSessionsCount >>

----------------------------------------------------------------------------
(* processMatchmakingQueue (services/matchmakingService.js 17-125)         *)

\* redis.zrange('matchmaking_queue', 0, -1): by score, then by member
EntryBefore(a, b) ==
    \/ a.timestampJoined < b.timestampJoined
    \/ /\ a.timestampJoined = b.timestampJoined
       /\ a.userId < b.userId
    \/ /\ a.timestampJoined = b.timestampJoined
       /\ a.userId = b.userId
       /\ a.lastMatchTime < b.lastMatchTime

RECURSIVE zrange(_)
zrange(S) ==
    IF S = {} THEN <<>>
    ELSE LET first == CHOOSE a \in S : \A b \in S \ {a} : EntryBefore(a, b)
         IN  <<first>> \o zrange(S \ {first})

\* the safety filter of the worker on one pair, lines 35-45
PairVetoed(userA, userB) ==
    \/ checkBlocked(userA.userId, userB.userId)
    \/ checkReported(userA.userId, userB.userId)
    \/ checkSuspended(userA.userId, userB.userId)

PassStart(k) ==
    /\ pass[k].pc \in {"idle", "returned", "failed"}
    /\ LET entries == zrange(matchmaking_queue)
       IN  IF Len(entries) < 2
           THEN pass' = [pass EXCEPT ![k] = [IdlePass EXCEPT !.pc = "returned"]]
           ELSE pass' = [pass EXCEPT ![k] =
                           [pc |-> "scan", entries |-> entries, passNow |-> now,
                            i |-> 1, j |-> 2, bestPair |-> {}, bestScore |-> 0,
                            afterFailure |-> pass[k].pc = "failed",
                            signalled |-> {}]]
    /\ UNCHANGED << routes, now, privateMatch, blockedUser, report, suspended,
                    matchmaking_queue, matchQueue, req, resp, scored >>
    /\ UNCHANGED << ops, privateMessage, supportSessionsCount >>

\* PassEval with bestScore starting at 0 instead of -Infinity: a pair is
\* kept only when its score is above 0
PassEvalPositiveOnly(k) ==
    /\ pass[k].pc = "scan"
    /\ LET p == pass[k]
           n == Len(p.entries)
           userA == p.entries[p.i]
           userB == p.entries[p.j]
           score == PairScore(userA, userB, p.passNow)
           better == /\ ~PairVetoed(userA, userB)
                     /\ score > p.bestScore
           lastPair == p.i = n - 1 /\ p.j = n
           nextI == IF p.j = n THEN p.i + 1 ELSE p.i
           nextJ == IF p.j = n THEN p.i + 2 ELSE p.j + 1
           best == IF better THEN {<<userA, userB>>} ELSE p.bestPair
       IN  pass' = [pass EXCEPT ![k] =
                      [p EXCEPT !.bestPair = best,
                                !.bestScore = IF better THEN score ELSE @,
                                !.i = IF lastPair THEN 0 ELSE nextI,
                                !.j = IF lastPair THEN 0 ELSE nextJ,
                                !.pc = IF ~lastPair THEN "scan"
                                       ELSE IF best # {} THEN "create"
                                       ELSE "reap"]]
    /\ UNCHANGED << routes, now, privateMatch, blockedUser, report, suspended,
                    matchmaking_queue, matchQueue, req, resp, scored >>
    /\ UNCHANGED << ops, privateMessage, supportSessionsCount >>

\* one iteration of the inner loop: filter, score, keep the best
PassEval(k) ==
    /\ pass[k].pc = "scan"
    /\ LET p == pass[k]
           n == Len(p.entries)
           userA == p.entries[p.i]
           userB == p.entries[p.j]
           score == PairScore(userA, userB, p.passNow)
           better == /\ ~PairVetoed(userA, userB)
                     /\ (p.bestPair = {} \/ score > p.bestScore)
           lastPair == p.i = n - 1 /\ p.j = n
           nextI == IF p.j = n THEN p.i + 1 ELSE p.i
           nextJ == IF p.j = n THEN p.i + 2 ELSE p.j + 1
           best == IF better THEN {<<userA, userB>>} ELSE p.bestPair
       IN  pass' = [pass EXCEPT ![k] =
                      [p EXCEPT !.bestPair = best,
                                !.bestScore = IF better THEN score ELSE @,
                                !.i = IF lastPair THEN 0 ELSE nextI,
                                !.j = IF lastPair THEN 0 ELSE nextJ,
                                !.pc = IF ~lastPair THEN "scan"
                                       ELSE IF best # {} THEN "create"
                                       ELSE "reap"]]
    /\ UNCHANGED << routes, now, privateMatch, blockedUser, report, suspended,
                    matchmaking_queue, matchQueue, req, resp, scored >>
    /\ UNCHANGED << ops, privateMessage, supportSessionsCount >>

\* a failed lookup that also removes the two members under evaluation
PassLookupFailsDropsPair(k) ==
    /\ pass[k].pc = "scan"
    /\ matchmaking_queue' = matchmaking_queue
                              \ {pass[k].entries[pass[k].i], pass[k].entries[pass[k].j]}
    /\ pass' = [pass EXCEPT ![k] = [IdlePass EXCEPT !.pc = "failed"]]
    /\ UNCHANGED << routes, now, privateMatch, blockedUser, report, suspended,
                    matchQueue, req, resp, scored, ops >>
    /\ UNCHANGED << privateMessage, supportSessionsCount >>

(* One of the prisma lookups of the pair under evaluation (lines 35-45 and *)
(* 70-77) rejects: the exception leaves the loops and is caught and logged *)
(* at lines 122-124, where the function returns.                           *)
PassLookupFails(k) ==
    /\ pass[k].pc = "scan"
    /\ pass' = [pass EXCEPT ![k] = [IdlePass EXCEPT !.pc = "failed"]]
    /\ UNCHANGED << routes, now, privateMatch, blockedUser, report, suspended,
                    matchmaking_queue, matchQueue, req, resp, scored, ops >>
    /\ UNCHANGED << privateMessage, supportSessionsCount >>

\* createMatch(userA, userB), lines 127-134
createMatch(userA, userB) ==
    privateMatch' = Append(privateMatch,
        MatchRow(userA.userId, userB.userId, "active", now, {}))

PassCreate(k) ==
    /\ pass[k].pc = "create"
    /\ Len(privateMatch) < MaxMatches
    /\ LET pair == The(pass[k].bestPair)
       IN  createMatch(pair[1], pair[2])
    /\ pass' = [pass EXCEPT ![k].pc = "remove"]
    /\ UNCHANGED << routes, now, blockedUser, report, suspended,
                    matchmaking_queue, matchQueue, req, resp, scored >>
    /\ UNCHANGED << ops, privateMessage, supportSessionsCount >>

\* lines 90-96: zrem of every snapshot member of either matched user
PassRemove(k) ==
    /\ pass[k].pc = "remove"
    /\ LET pair == The(pass[k].bestPair)
           gone == { pass[k].entries[x] : x \in
                       { y \in 1 .. Len(pass[k].entries) :
                           pass[k].entries[y].userId \in
                              {pair[1].userId, pair[2].userId} } }
       IN  matchmaking_queue' = matchmaking_queue \ gone
    /\ pass' = [pass EXCEPT ![k].pc = "reap"]
    /\ UNCHANGED << routes, now, privateMatch, blockedUser, report, suspended,
                    matchQueue, req, resp, scored >>
    /\ UNCHANGED << ops, privateMessage, supportSessionsCount >>

\* lines 101-121: the users of the snapshot that waited more than 2 minutes
\* lose their snapshot members and are sent the match_timeout notification
PassReap(k) ==
    /\ pass[k].pc = "reap"
    /\ LET p == pass[k]
           timedOut == { p.entries[x].userId : x \in
                           { y \in 1 .. Len(p.entries) :
                               p.passNow - p.entries[y].timestampJoined > 120000 } }
           gone == { p.entries[x] : x \in
                       { y \in 1 .. Len(p.entries) :
                           p.entries[y].userId \in timedOut } }
       IN  /\ matchmaking_queue' = matchmaking_queue \ gone
           /\ pass' = [pass EXCEPT ![k] = [IdlePass EXCEPT !.signalled = timedOut]]
    /\ UNCHANGED << routes, now, privateMatch, blockedUser, report, suspended,
                    matchQueue, req, resp, scored >>
    /\ UNCHANGED << ops, privateMessage, supportSessionsCount >>

----------------------------------------------------------------------------
(* POST /api/matches/request, DB variant (routes/matches.js 390-579).      *)
(* The handler is suspended at each await; the steps below are the         *)
(* stretches between the awaits that read or write shared tables.          *)

\* steps 1 and 2: the active-match and cooldown lookups
DbCheck(userId) ==
    /\ routes = "db"
    /\ req[userId].pc = "idle"
    /\ userId \notin suspended
    /\ IF ActiveMatchesOf(userId) # {}
       THEN /\ resp' = [resp EXCEPT ![userId] = "matched"]
            /\ UNCHANGED req
       ELSE IF InCooldown(lastMatch(userId))
       THEN /\ resp' = [resp EXCEPT ![userId] = "cooldown"]
            /\ UNCHANGED req
       ELSE /\ req' = [req EXCEPT ![userId].pc = "enqueue"]
            /\ resp' = [resp EXCEPT ![userId] = "pending"]
    /\ UNCHANGED << routes, now, privateMatch, blockedUser, report, suspended,
                    matchmaking_queue, matchQueue, pass, scored >>
    /\ UNCHANGED << ops, privateMessage, supportSessionsCount >>

\* steps 3 and 4: findUnique on the caller's row, create when absent
DbEnqueue(userId) ==
    /\ routes = "db"
    /\ req[userId].pc = "enqueue"
    /\ LET existing == { r \in matchQueue : r.userId = userId }
       IN  /\ matchQueue' = IF existing = {}
                            THEN matchQueue \cup
                                   { QueueRow(userId, userIntents(userId), now) }
                            ELSE matchQueue
           /\ req' = [req EXCEPT ![userId].pc = "scan",
                                 ![userId].existing = existing]
    /\ UNCHANGED << routes, now, privateMatch, blockedUser, report, suspended,
                    matchmaking_queue, pass, resp, scored >>
    /\ UNCHANGED << ops, privateMessage, supportSessionsCount >>

\* the sequences that list every element of S once: findMany has no orderBy
RECURSIVE Orderings(_)
Orderings(S) ==
    IF S = {} THEN { <<>> }
    ELSE UNION { { <<x>> \o rest : rest \in Orderings(S \ {x}) } : x \in S }

\* step 5: the other waiting rows, each with its user's isSuspended
DbScan(userId) ==
    /\ routes = "db"
    /\ req[userId].pc = "scan"
    /\ LET others == { [row |-> r, isSuspended |-> r.userId \in suspended] :
                         r \in { q \in matchQueue : q.userId # userId } }
       IN  IF others = {}
           THEN /\ req' = [req EXCEPT ![userId] = IdleDbReq]
                /\ resp' = [resp EXCEPT ![userId] = "waiting"]
           ELSE /\ \E waitingUsers \in Orderings(others) :
                     req' = [req EXCEPT ![userId].pc = "eval",
                                        ![userId].waitingUsers = waitingUsers,
                                        ![userId].idx = 1]
                /\ UNCHANGED resp
    /\ UNCHANGED << routes, now, privateMatch, blockedUser, report, suspended,
                    matchmaking_queue, matchQueue, pass, scored >>
    /\ UNCHANGED << ops, privateMessage, supportSessionsCount >>

\* the safety filter of the handler on one candidate, lines 466-489
CandidateVetoed(userId, candidate) ==
    \/ candidate.isSuspended
    \/ <<userId, candidate.row.userId>> \in blockedUser
    \/ <<candidate.row.userId, userId>> \in blockedUser
    \/ ReportsFrom(userId, candidate.row.userId) # {}
    \/ ReportsFrom(candidate.row.userId, userId) # {}

\* DbEval in which a scan that ends with every candidate vetoed is answered
\* with an error and drops the requester's row
DbEvalVetoIsError(userId) ==
    /\ routes = "db"
    /\ req[userId].pc = "eval"
    /\ LET r == req[userId]
           candidate == r.waitingUsers[r.idx]
           score == CandidateScore(userId, userIntents(userId), r.existing,
                                   candidate.row)
           better == /\ ~CandidateVetoed(userId, candidate)
                     /\ (r.bestMatch = {} \/ score > r.bestScore)
           best == IF better THEN {candidate.row} ELSE r.bestMatch
           last == r.idx = Len(r.waitingUsers)
       IN  IF last /\ best = {}
           THEN /\ req' = [req EXCEPT ![userId] = IdleDbReq]
                /\ resp' = [resp EXCEPT ![userId] = "error"]
                /\ matchQueue' = { q \in matchQueue : q.userId # userId }
           ELSE /\ req' = [req EXCEPT ![userId] =
                             [r EXCEPT !.bestMatch = best,
                                       !.bestScore = IF better THEN score ELSE @,
                                       !.idx = IF last THEN 0 ELSE @ + 1,
                                       !.pc = IF last THEN "create" ELSE "eval"]]
                /\ UNCHANGED << resp, matchQueue >>
    /\ UNCHANGED << routes, now, privateMatch, blockedUser, report, suspended,
                    matchmaking_queue, pass, scored >>
    /\ UNCHANGED << ops, privateMessage, supportSessionsCount >>

\* step 6: one iteration of the loop over waitingUsers
DbEval(userId) ==
    /\ routes = "db"
    /\ req[userId].pc = "eval"
    /\ LET r == req[userId]
           candidate == r.waitingUsers[r.idx]
           score == CandidateScore(userId, userIntents(userId), r.existing,
                                   candidate.row)
           better == /\ ~CandidateVetoed(userId, candidate)
                     /\ (r.bestMatch = {} \/ score > r.bestScore)
           best == IF better THEN {candidate.row} ELSE r.bestMatch
           last == r.idx = Len(r.waitingUsers)
       IN  IF last /\ best = {}
           THEN /\ req' = [req EXCEPT ![userId] = IdleDbReq]
                /\ resp' = [resp EXCEPT ![userId] = "waiting"]
           ELSE /\ req' = [req EXCEPT ![userId] =
                             [r EXCEPT !.bestMatch = best,
                                       !.bestScore = IF better THEN score ELSE @,
                                       !.idx = IF last THEN 0 ELSE @ + 1,
                                       !.pc = IF last THEN "create" ELSE "eval"]]
                /\ UNCHANGED resp
    /\ UNCHANGED << routes, now, privateMatch, blockedUser, report, suspended,
                    matchmaking_queue, matchQueue, pass, scored >>
    /\ UNCHANGED << ops, privateMessage, supportSessionsCount >>

\* step 7: prisma.privateMatch.create
DbCreateMatch(userId) ==
    /\ routes = "db"
    /\ req[userId].pc = "create"
    /\ Len(privateMatch) < MaxMatches
    /\ privateMatch' = Append(privateMatch,
          MatchRow(userId, The(req[userId].bestMatch).userId, "active", now, {}))
    /\ req' = [req EXCEPT ![userId].pc = "delete"]
    /\ UNCHANGED << routes, now, blockedUser, report, suspended,
                    matchmaking_queue, matchQueue, pass, resp, scored >>
    /\ UNCHANGED << ops, privateMessage, supportSessionsCount >>

\* step 8: prisma.matchQueue.deleteMany on both users, then the response
DbDelete(userId) ==
    /\ routes = "db"
    /\ req[userId].pc = "delete"
    /\ matchQueue' = { r \in matchQueue :
                         r.userId \notin {userId, The(req[userId].bestMatch).userId} }
    /\ req' = [req EXCEPT ![userId] = IdleDbReq]
    /\ resp' = [resp EXCEPT ![userId] = "matched"]
    /\ UNCHANGED << routes, now, privateMatch, blockedUser, report, suspended,
                    matchmaking_queue, pass, scored >>
    /\ UNCHANGED << ops, privateMessage, supportSessionsCount >>

\* POST /api/matches/cancel, DB variant (routes/matches.js 585-593), by a
\* user who has a row
DbCancel(userId) ==
    /\ routes = "db"
    /\ \E r \in matchQueue : r.userId = userId
    /\ matchQueue' = { r \in matchQueue : r.userId # userId }
    /\ UNCHANGED << routes, now, privateMatch, blockedUser, report, suspended,
                    matchmaking_queue, pass, req, resp, scored >>
    /\ UNCHANGED << ops, privateMessage, supportSessionsCount >>

----------------------------------------------------------------------------
(* Other routes that change what the engine reads *)

FactCount == Cardinality(blockedUser) + Cardinality(report)
                + Cardinality(suspended)

(* POST /api/reports/block (routes/reports.js 82-140).  The handler is    *)
(* suspended at each await; BlockCreate is the existence check and the     *)
(* blockedUser.create, BlockFind the findFirst of the active match between *)
(* the two users, BlockUpdate the update of that match.                    *)

BlockCreate(userId, targetUserId) ==
    /\ ops[userId].pc = "idle"
    /\ userId # targetUserId
    /\ <<userId, targetUserId>> \notin blockedUser
    /\ FactCount < MaxFacts
    /\ blockedUser' = blockedUser \cup {<<userId, targetUserId>>}
    /\ ops' = [ops EXCEPT ![userId] =
                 [IdleOp EXCEPT !.pc = "blockFind",
                                !.targetUserId = targetUserId,
                                !.last = "pending"]]
    /\ UNCHANGED << routes, now, privateMatch, report, suspended,
                    matchmaking_queue, matchQueue, pass, req, resp, scored >>
    /\ UNCHANGED << privateMessage, supportSessionsCount >>

BlockFind(userId) ==
    /\ ops[userId].pc = "blockFind"
    /\ LET act == { k \in 1 .. Len(privateMatch) :
                      /\ privateMatch[k].status = "active"
                      /\ {privateMatch[k].userOneId, privateMatch[k].userTwoId}
                            = {userId, ops[userId].targetUserId} }
       IN  IF act = {}
           THEN ops' = [ops EXCEPT ![userId] = [IdleOp EXCEPT !.last = "blocked"]]
           ELSE \E activeMatch \in act :
                   ops' = [ops EXCEPT ![userId].pc = "blockUpdate",
                                      ![userId].matchId = activeMatch,
                                      ![userId].endedAt = now]
    /\ UNCHANGED << routes, now, privateMatch, blockedUser, report, suspended,
                    matchmaking_queue, matchQueue, pass, req, resp, scored >>
    /\ UNCHANGED << privateMessage, supportSessionsCount >>

BlockUpdate(userId) ==
    /\ ops[userId].pc = "blockUpdate"
    /\ privateMatch' = [privateMatch EXCEPT
                          ![ops[userId].matchId].status = "blocked",
                          ![ops[userId].matchId].endedAt = {ops[userId].endedAt}]
    /\ ops' = [ops EXCEPT ![userId] = [IdleOp EXCEPT !.last = "blocked"]]
    /\ UNCHANGED << routes, now, blockedUser, report, suspended,
                    matchmaking_queue, matchQueue, pass, req, resp, scored >>
    /\ UNCHANGED << privateMessage, supportSessionsCount >>

\* POST /api/reports/block run without interleaving: BlockCreate, BlockFind
\* and BlockUpdate in one step
Block(userId, targetUserId) ==
    /\ userId # targetUserId
    /\ <<userId, targetUserId>> \notin blockedUser
    /\ FactCount < MaxFacts
    /\ blockedUser' = blockedUser \cup {<<userId, targetUserId>>}
    /\ privateMatch' =
          LET act == { k \in 1 .. Len(privateMatch) :
                         /\ privateMatch[k].status = "active"
                         /\ {privateMatch[k].userOneId, privateMatch[k].userTwoId}
                               = {userId, targetUserId} }
          IN  IF act = {} THEN privateMatch
              ELSE LET k == CHOOSE x \in act : \A y \in act : x <= y
                   IN  [privateMatch EXCEPT ![k].status = "blocked",
                                            ![k].endedAt = {now}]
    /\ UNCHANGED << routes, now, report, suspended, matchmaking_queue, matchQueue,
                    pass, req, resp, scored >>
    /\ UNCHANGED << ops, privateMessage, supportSessionsCount >>

\* POST /api/reports (routes/reports.js 14-76)
Report(userId, targetUserId) ==
    /\ userId # targetUserId
    /\ userId \notin suspended
    /\ ReportsFrom(userId, targetUserId) = {}
    /\ FactCount < MaxFacts
    /\ report' = report \cup {ReportRow(userId, targetUserId, "pending")}
    /\ UNCHANGED << routes, now, privateMatch, blockedUser, suspended,
                    matchmaking_queue, matchQueue, pass, req, resp, scored >>
    /\ UNCHANGED << ops, privateMessage, supportSessionsCount >>

\* PUT /api/admin/reports/:id/resolve (routes/admin/reports.js 190-213) on a
\* report that is not yet resolved
ResolveReport(r) ==
    /\ r \in report
    /\ r.status # "resolved"
    /\ report' = (report \ {r}) \cup {[r EXCEPT !.status = "resolved"]}
    /\ UNCHANGED << routes, now, privateMatch, blockedUser, suspended,
                    matchmaking_queue, matchQueue, pass, req, resp, scored >>
    /\ UNCHANGED << ops, privateMessage, supportSessionsCount >>

\* POST /api/admin/users/:id/suspend (routes/admin/reports.js 481-520)
Suspend(userId) ==
    /\ userId \notin suspended
    /\ FactCount < MaxFacts
    /\ suspended' = suspended \cup {userId}
    /\ UNCHANGED << routes, now, privateMatch, blockedUser, report,
                    matchmaking_queue, matchQueue, pass, req, resp, scored >>
    /\ UNCHANGED << ops, privateMessage, supportSessionsCount >>

(* POST /api/matches/:matchId/end (routes/matches.js 645-687) and the       *)
(* socket handler end_chat (chatServer.js 150-191), which run the same      *)
(* findFirst and update.  EndFind is the findFirst and the computation of   *)
(* now and durationSeconds that follows it, EndUpdate the update by id,     *)
(* after which end_chat is done; EndCount is the user.updateMany that only  *)
(* the HTTP route goes on to.                                               *)

\* EndFind whose findFirst does not filter on status 'active'
EndFindAnyStatus(userId, matchId) ==
    /\ ops[userId].pc = "idle"
    /\ IF /\ matchId \in 1 .. Len(privateMatch)
          /\ userId \in {privateMatch[matchId].userOneId,
                         privateMatch[matchId].userTwoId}
       THEN \E via \in Paths :
              ops' = [ops EXCEPT ![userId] =
                      [IdleOp EXCEPT
                         !.pc = "endUpdate",
                         !.matchId = matchId,
                         !.endedAt = now,
                         !.durationSeconds =
                            Floor(now - privateMatch[matchId].matchedAt, 1000),
                         !.last = "pending",
                         !.via = via]]
       ELSE ops' = [ops EXCEPT ![userId] =
                      [IdleOp EXCEPT !.matchId = matchId, !.last = "notFound"]]
    /\ UNCHANGED << routes, now, privateMatch, blockedUser, report, suspended,
                    matchmaking_queue, matchQueue, pass, req, resp, scored >>
    /\ UNCHANGED << privateMessage, supportSessionsCount >>

EndFind(userId, matchId) ==
    /\ ops[userId].pc = "idle"
    /\ IF /\ matchId \in 1 .. Len(privateMatch)
          /\ userId \in {privateMatch[matchId].userOneId,
                         privateMatch[matchId].userTwoId}
          /\ privateMatch[matchId].status = "active"
       THEN \E via \in Paths :
              ops' = [ops EXCEPT ![userId] =
                      [IdleOp EXCEPT
                         !.pc = "endUpdate",
                         !.matchId = matchId,
                         !.endedAt = now,
                         !.durationSeconds =
                            Floor(now - privateMatch[matchId].matchedAt, 1000),
                         !.last = "pending",
                         !.via = via]]
       ELSE ops' = [ops EXCEPT ![userId] =
                      [IdleOp EXCEPT !.matchId = matchId, !.last = "notFound"]]
    /\ UNCHANGED << routes, now, privateMatch, blockedUser, report, suspended,
                    matchmaking_queue, matchQueue, pass, req, resp, scored >>
    /\ UNCHANGED << privateMessage, supportSessionsCount >>

EndUpdate(userId) ==
    /\ ops[userId].pc = "endUpdate"
    /\ privateMatch' = [privateMatch EXCEPT
                          ![ops[userId].matchId].status = "ended",
                          ![ops[userId].matchId].endedAt = {ops[userId].endedAt},
                          ![ops[userId].matchId].durationSeconds =
                              {ops[userId].durationSeconds}]
    /\ ops' = [ops EXCEPT ![userId] =
                 IF ops[userId].via = "http"
                 THEN [@ EXCEPT !.pc = "endCount"]
                 ELSE [IdleOp EXCEPT !.last = "ended"]]
    /\ UNCHANGED << routes, now, blockedUser, report, suspended,
                    matchmaking_queue, matchQueue, pass, req, resp, scored >>
    /\ UNCHANGED << privateMessage, supportSessionsCount >>

\* prisma.user.updateMany on the two participants: increment by 1
CountSession(count, match) ==
    [u \in DOMAIN count |->
        IF u \in {match.userOneId, match.userTwoId} THEN count[u] + 1
        ELSE count[u]]

\* the HTTP route after its update: lines 671-678
EndCount(userId) ==
    /\ ops[userId].pc = "endCount"
    /\ supportSessionsCount' =
          CountSession(supportSessionsCount, privateMatch[ops[userId].matchId])
    /\ ops' = [ops EXCEPT ![userId] = [IdleOp EXCEPT !.last = "ended"]]
    /\ UNCHANGED << routes, now, privateMatch, blockedUser, report, suspended,
                    matchmaking_queue, matchQueue, pass, req, resp, scored >>
    /\ UNCHANGED privateMessage

\* POST /api/matches/:matchId/end run without interleaving: EndFind,
\* EndUpdate and EndCount in one step
EndMatch(userId, matchId) ==
    /\ matchId \in ActiveMatchesOf(userId)
    /\ privateMatch' = [privateMatch EXCEPT
                          ![matchId].status = "ended",
                          ![matchId].endedAt = {now},
                          ![matchId].durationSeconds =
                              {Floor(now - privateMatch[matchId].matchedAt, 1000)}]
    /\ supportSessionsCount' =
          CountSession(supportSessionsCount, privateMatch[matchId])
    /\ UNCHANGED << routes, now, blockedUser, report, suspended,
                    matchmaking_queue, matchQueue, pass, req, resp, scored >>
    /\ UNCHANGED << ops, privateMessage >>

(* Sending a private message: the socket event send_message (chatServer.js *)
(* 87-147) and its HTTP fallback POST /api/matches/:matchId/messages        *)
(* (routes/matches.js 746-789), for a text that passes the length checks.   *)
(* SendFind is the findFirst of the match: the socket handler asks for the  *)
(* id and status 'active', the HTTP route also for the caller as one of the *)
(* two users, behind requireNotSuspended.  SendCreate is                    *)
(* prisma.privateMessage.create.                                            *)

SendFind(userId, matchId) ==
    /\ ops[userId].pc = "idle"
    /\ \E via \in Paths :
          /\ via = "http" => userId \notin suspended
          /\ IF /\ matchId \in 1 .. Len(privateMatch)
                /\ privateMatch[matchId].status = "active"
                /\ via = "http" =>
                      userId \in {privateMatch[matchId].userOneId,
                                  privateMatch[matchId].userTwoId}
             THEN ops' = [ops EXCEPT ![userId] =
                            [IdleOp EXCEPT !.pc = "sendCreate",
                                           !.matchId = matchId,
                                           !.last = "pending",
                                           !.via = via]]
             ELSE ops' = [ops EXCEPT ![userId] =
                            [IdleOp EXCEPT !.matchId = matchId,
                                           !.last = "refused",
                                           !.via = via]]
    /\ UNCHANGED << routes, now, privateMatch, blockedUser, report, suspended,
                    matchmaking_queue, matchQueue, pass, req, resp, scored >>
    /\ UNCHANGED << privateMessage, supportSessionsCount >>

SendCreate(userId) ==
    /\ ops[userId].pc = "sendCreate"
    /\ privateMessage' = privateMessage \cup
          { [matchId |-> ops[userId].matchId, senderId |-> userId] }
    /\ ops' = [ops EXCEPT ![userId] =
                 [IdleOp EXCEPT !.matchId = ops[userId].matchId,
                                !.last = "sent",
                                !.via = ops[userId].via]]
    /\ UNCHANGED << routes, now, privateMatch, blockedUser, report, suspended,
                    matchmaking_queue, matchQueue, pass, req, resp, scored >>
    /\ UNCHANGED supportSessionsCount

\* time passes
Tick ==
    /\ now < T0 + MaxTicks * TickMs
    /\ now' = now + TickMs
    /\ UNCHANGED << routes, privateMatch, blockedUser, report, suspended,
                    matchmaking_queue, matchQueue, pass, req, resp, scored >>
    /\ UNCHANGED << ops, privateMessage, supportSessionsCount >>

Next ==
    \/ \E u \in Users : RequestCheck(u)
    \/ \E u \in Users : RequestZadd(u)
    \/ \E u \in Users : Cancel(u)
    \/ \E u \in Users : DbCheck(u)
    \/ \E u \in Users : DbEnqueue(u)
    \/ \E u \in Users : DbScan(u)
    \/ \E u \in Users : DbEval(u)
    \/ \E u \in Users : DbCreateMatch(u)
    \/ \E u \in Users : DbDelete(u)
    \/ \E u \in Users : DbCancel(u)
    \/ \E k \in Passes : PassStart(k)
    \/ \E k \in Passes : PassEval(k)
    \/ \E k \in Passes : PassCreate(k)
    \/ \E k \in Passes : PassRemove(k)
    \/ \E k \in Passes : PassReap(k)
    \/ \E u \in Users, t \in Users : Block(u, t)
    \/ \E u \in Users, t \in Users : Report(u, t)
    \/ \E u \in Users : Suspend(u)
    \/ \E u \in Users, m \in 1 .. MaxMatches : EndMatch(u, m)
    \/ Tick

Spec == Init /\ [][Next]_vars

----------------------------------------------------------------------------
(* Pairing from a drawn pool: the worker's pass on a sorted set of one to   *)
(* three members, and the request handler for users 1 and 2 on a matchQueue *)
(* at rest (rows that wait together are vetoed for each other, since the    *)
(* handler of the later one would otherwise have paired them).              *)

PoolJoinTimes == { T0 - 130000, T0 - 100000, T0 }
PairsOf(S) == { p \in S \X S : p[1] < p[2] }

FactChoices ==
    { [b |-> {}, r |-> {}, s |-> {}] }
      \cup { [b |-> {p}, r |-> {}, s |-> {}] : p \in PairsOf(PoolUsers) }
      \cup { [b |-> {}, r |-> {p}, s |-> {}] : p \in PairsOf(PoolUsers) }
      \cup { [b |-> {}, r |-> {}, s |-> {u}] : u \in PoolUsers }

Vetoed(f, a, b) ==
    \/ <<a, b>> \in f.b \cup f.r
    \/ <<b, a>> \in f.b \cup f.r
    \/ a \in f.s
    \/ b \in f.s

InitPass ==
    /\ routes \in {"redis", "db"}
    /\ now = T0
    /\ \E f \in FactChoices, S \in SUBSET PoolUsers,
          joined \in [PoolUsers -> PoolJoinTimes] :
          /\ blockedUser = f.b
          /\ report = { ReportRow(p[1], p[2], "pending") : p \in f.r }
          /\ suspended = f.s
          /\ IF routes = "redis"
             THEN /\ Cardinality(S) >= 1
                  /\ matchmaking_queue =
                        { QueueEntry(u, userIntents(u), joined[u], 0) : u \in S }
                  /\ matchQueue = {}
             ELSE /\ \A p \in PairsOf(S) : Vetoed(f, p[1], p[2])
                  /\ \A u \in PoolUsers \ S : joined[u] = T0
                  /\ matchQueue =
                        { QueueRow(u, userIntents(u), joined[u]) : u \in S }
                  /\ matchmaking_queue = {}
    /\ privateMatch \in
          {<<>>} \cup
          { << MatchRow(p[1], p[2], "ended", T0 - 2 * DAY_MS,
                        {T0 - 2 * DAY_MS + 60000}) >> : p \in PairsOf(PoolUsers) }
    /\ pass = [k \in Passes |-> IdlePass]
    /\ req = [u \in Users |-> IF routes = "redis" THEN IdleReq ELSE IdleDbReq]
    /\ resp = [u \in Users |-> "none"]
    /\ scored = NoScore
    /\ ops = [u \in Users |-> IdleOp]
    /\ privateMessage = {}
    /\ supportSessionsCount = [u \in AllUsers |-> 0]

NextPass ==
    \/ \E k \in Passes : PassStart(k)
    \/ \E k \in Passes : PassEval(k)
    \/ \E k \in Passes : PassCreate(k)
    \/ \E k \in Passes : PassRemove(k)
    \/ \E k \in Passes : PassReap(k)
    \/ \E k \in Passes : PassLookupFails(k)
    \/ \E u \in Users : DbCheck(u)
    \/ \E u \in Users : DbEnqueue(u)
    \/ \E u \in Users : DbScan(u)
    \/ \E u \in Users : DbEval(u)
    \/ \E u \in Users : DbCreateMatch(u)
    \/ \E u \in Users : DbDelete(u)

SpecPass == InitPass /\ [][NextPass]_vars

----------------------------------------------------------------------------
(* The end and block handlers, step by step, on a drawn privateMatch table: *)
(* no row, or one match of user 1 with user 2 or 3 in any status.  A match  *)
(* that has been ended was ended by the HTTP route, so both of its users    *)
(* have one support session counted.                                        *)

LifeMatchTimes == { T0 - 1500, T0 - 90000 }

LifeTables ==
    {<<>>} \cup
    { << MatchRow(1, other, "active", at, {}) >> :
         other \in {2, 3}, at \in LifeMatchTimes } \cup
    { << [MatchRow(1, other, "ended", at, {at + 1000})
             EXCEPT !.durationSeconds = {1}] >> :
         other \in {2, 3}, at \in LifeMatchTimes } \cup
    { << MatchRow(1, other, "blocked", at, {at + 1000}) >> :
         other \in {2, 3}, at \in LifeMatchTimes }

InitLife ==
    /\ routes \in {"redis", "db"}
    /\ now = T0
    /\ privateMatch \in LifeTables
    /\ blockedUser = {}
    /\ report = {}
    /\ suspended = {}
    /\ matchmaking_queue = {}
    /\ matchQueue = {}
    /\ pass = [k \in Passes |-> IdlePass]
    /\ req = [u \in Users |-> IF routes = "redis" THEN IdleReq ELSE IdleDbReq]
    /\ resp = [u \in Users |-> "none"]
    /\ scored = NoScore
    /\ ops = [u \in Users |-> IdleOp]
    /\ privateMessage = {}
    /\ supportSessionsCount =
          [u \in AllUsers |->
              IF /\ privateMatch # <<>>
                 /\ privateMatch[1].status = "ended"
                 /\ u \in {privateMatch[1].userOneId, privateMatch[1].userTwoId}
              THEN 1 ELSE 0]

NextLife ==
    \/ \E u \in Users, m \in 1 .. MaxMatches : EndFind(u, m)
    \/ \E u \in Users : EndUpdate(u)
    \/ \E u \in Users : EndCount(u)
    \/ \E u \in Users, t \in Users : BlockCreate(u, t)
    \/ \E u \in Users : BlockFind(u)
    \/ \E u \in Users : BlockUpdate(u)
    \/ Tick

SpecLife == InitLife /\ [][NextLife]_vars

(* The message handlers, step by step, on the same drawn tables, next to    *)
(* the end route, which can end the match between a sender's lookup and its *)
(* create.                                                                  *)

NextChat ==
    \/ \E u \in Users, m \in 1 .. MaxMatches : SendFind(u, m)
    \/ \E u \in Users : SendCreate(u)
    \/ \E u \in Users, m \in 1 .. MaxMatches : EndMatch(u, m)

SpecChat == InitLife /\ [][NextChat]_vars

----------------------------------------------------------------------------
(* The cancel handlers, step by step and for users with or without an      *)
(* entry, next to the enqueue steps of the request handlers, on a drawn     *)
(* pool of at most one entry per user.                                      *)

\* lines 133-134 of the Redis route: the zrange the handler iterates over
CancelRead(userId) ==
    /\ routes = "redis"
    /\ ops[userId].pc = "idle"
    /\ ops' = [ops EXCEPT ![userId] =
                 [IdleOp EXCEPT !.pc = "cancelZrem",
                                !.queueEntries = zrange(matchmaking_queue),
                                !.last = "pending"]]
    /\ UNCHANGED << routes, now, privateMatch, blockedUser, report, suspended,
                    matchmaking_queue, matchQueue, pass, req, resp, scored >>
    /\ UNCHANGED << privateMessage, supportSessionsCount >>

\* lines 135-142: zrem of the members of the caller found in that zrange
CancelZrem(userId) ==
    /\ routes = "redis"
    /\ ops[userId].pc = "cancelZrem"
    /\ LET queueEntries == ops[userId].queueEntries
           gone == { queueEntries[x] : x \in
                       { y \in 1 .. Len(queueEntries) :
                           queueEntries[y].userId = userId } }
       IN  matchmaking_queue' = matchmaking_queue \ gone
    /\ ops' = [ops EXCEPT ![userId] = [IdleOp EXCEPT !.last = "cancelled"]]
    /\ UNCHANGED << routes, now, privateMatch, blockedUser, report, suspended,
                    matchQueue, pass, req, resp, scored >>
    /\ UNCHANGED << privateMessage, supportSessionsCount >>

\* the DB route: prisma.matchQueue.deleteMany and the response
DbCancelRequest(userId) ==
    /\ routes = "db"
    /\ ops[userId].pc = "idle"
    /\ matchQueue' = { r \in matchQueue : r.userId # userId }
    /\ ops' = [ops EXCEPT ![userId] = [IdleOp EXCEPT !.last = "cancelled"]]
    /\ UNCHANGED << routes, now, privateMatch, blockedUser, report, suspended,
                    matchmaking_queue, pass, req, resp, scored >>
    /\ UNCHANGED << privateMessage, supportSessionsCount >>

CancelJoinTimes == { T0 - 100000, T0 - 1000 }

InitCancel ==
    /\ routes \in {"redis", "db"}
    /\ now = T0
    /\ \E S \in SUBSET PoolUsers, joined \in [PoolUsers -> CancelJoinTimes] :
          IF routes = "redis"
          THEN /\ matchmaking_queue =
                     { QueueEntry(u, userIntents(u), joined[u], 0) : u \in S }
               /\ matchQueue = {}
          ELSE /\ matchQueue =
                     { QueueRow(u, userIntents(u), joined[u]) : u \in S }
               /\ matchmaking_queue = {}
    /\ privateMatch = <<>>
    /\ blockedUser = {}
    /\ report = {}
    /\ suspended = {}
    /\ pass = [k \in Passes |-> IdlePass]
    /\ req = [u \in Users |-> IF routes = "redis" THEN IdleReq ELSE IdleDbReq]
    /\ resp = [u \in Users |-> "none"]
    /\ scored = NoScore
    /\ ops = [u \in Users |-> IdleOp]
    /\ privateMessage = {}
    /\ supportSessionsCount = [u \in AllUsers |-> 0]

NextCancel ==
    \/ \E u \in Users : CancelRead(u)
    \/ \E u \in Users : CancelZrem(u)
    \/ \E u \in Users : DbCancelRequest(u)
    \/ \E u \in Users : RequestCheck(u)
    \/ \E u \in Users : RequestZadd(u)
    \/ \E u \in Users : DbCheck(u)
    \/ \E u \in Users : DbEnqueue(u)

SpecCancel == InitCancel /\ [][NextCancel]_vars

----------------------------------------------------------------------------
(* The worker's interval: setInterval calls processMatchmakingQueue every   *)
(* 3 seconds, whether or not an earlier call has returned, so up to         *)
(* MaxOverlap invocations are in progress on the same sorted set.           *)

MaxOverlap == 2
Triggers == 1 .. MaxOverlap

InitOverlap ==
    /\ routes = "redis"
    /\ now = T0
    /\ \E S \in SUBSET PoolUsers, joined \in [PoolUsers -> PoolJoinTimes] :
          /\ Cardinality(S) >= 2
          /\ matchmaking_queue =
                { QueueEntry(u, userIntents(u), joined[u], 0) : u \in S }
    /\ matchQueue = {}
    /\ privateMatch = <<>>
    /\ blockedUser = {}
    /\ report = {}
    /\ suspended = {}
    /\ pass = [k \in Triggers |-> IdlePass]
    /\ req = [u \in Users |-> IdleReq]
    /\ resp = [u \in Users |-> "none"]
    /\ scored = NoScore
    /\ ops = [u \in Users |-> IdleOp]
    /\ privateMessage = {}
    /\ supportSessionsCount = [u \in AllUsers |-> 0]

NextOverlap ==
    \/ \E k \in Triggers : PassStart(k)
    \/ \E k \in Triggers : PassEval(k)
    \/ \E k \in Triggers : PassCreate(k)
    \/ \E k \in Triggers : PassRemove(k)
    \/ \E k \in Triggers : PassReap(k)

SpecOverlap == InitOverlap /\ [][NextOverlap]_vars

----------------------------------------------------------------------------
(* Properties *)

EntriesOf(userId) == { e \in matchmaking_queue : e.userId = userId }
RowsOf(userId) == { r \in matchQueue : r.userId = userId }

\* section 4.2 of the specification: the pairing of idA and idB is permitted
\* (no block, no unresolved report, neither user suspended)
IsPermitted(idA, idB) ==
    /\ <<idA, idB>> \notin blockedUser
    /\ <<idB, idA>> \notin blockedUser
    /\ \A r \in ReportsFrom(idA, idB) \cup ReportsFrom(idB, idA) :
          r.status = "resolved"
    /\ idA \notin suspended
    /\ idB \notin suspended

\* C1: every user takes part in at most one match whose status is active.
C1_NoDuplicateActiveMatch ==
    \A u \in Users : Cardinality(ActiveMatchesOf(u)) <= 1

\* C2: the waiting pool holds at most one entry per user identifier.
C2_NoDuplicateWaiting ==
    \A u \in Users :
        /\ Cardinality(EntriesOf(u)) <= 1
        /\ Cardinality(RowsOf(u)) <= 1

\* C3: whenever a step creates a match, the pair is permitted in the state
\* the step is taken from (no block, no report, neither user suspended).
C3_PermittedAtCommit ==
    [][ Len(privateMatch') > Len(privateMatch) =>
          LET m == privateMatch'[Len(privateMatch')]
          IN  IsPermitted(m.userOneId, m.userTwoId) ]_vars

\* C4: whenever a scan step makes a pair its best pair so far, no block and
\* no report exists between the two and neither is suspended in the state
\* the pair is evaluated in.
C4_FilterAtScan ==
    [][ /\ \A k \in Passes :
             (pass[k].pc = "scan" /\ pass'[k].bestPair # pass[k].bestPair) =>
                LET pair == The(pass'[k].bestPair)
                IN  IsPermitted(pair[1].userId, pair[2].userId)
        /\ \A u \in Users :
             (routes = "db" /\ req[u].pc = "eval"
                 /\ req'[u].pc \in {"eval", "create"}
                 /\ req'[u].bestMatch # req[u].bestMatch) =>
                IsPermitted(u, The(req'[u].bestMatch).userId) ]_vars

\* C6: when a pass (or a request-time scan) creates a match, the entries it
\* selected are still in the pool: a user whose entry was removed since the
\* snapshot is not matched.
C6_NoMatchForCancelled ==
    [][ /\ \A k \in Passes :
             (pass[k].pc = "create" /\ pass'[k].pc = "remove") =>
                LET pair == The(pass[k].bestPair)
                IN  pair[1] \in matchmaking_queue /\ pair[2] \in matchmaking_queue
        /\ \A u \in Users :
             (routes = "db" /\ req[u].pc = "create" /\ req'[u].pc = "delete") =>
                The(req[u].bestMatch) \in matchQueue ]_vars

\* C7: there is no state in which a pairing operation has created its match
\* while an entry of a participant, read by that operation, is in the pool.
C7_AtomicPairRemoval ==
    /\ \A k \in Passes :
          pass[k].pc = "remove" =>
             LET pair == The(pass[k].bestPair)
             IN  pair[1] \notin matchmaking_queue /\ pair[2] \notin matchmaking_queue
    /\ \A u \in Users :
          (routes = "db" /\ req[u].pc = "delete") =>
             /\ RowsOf(u) = {}
             /\ The(req[u].bestMatch) \notin matchQueue

\* C9: the score of (A, B) equals the score of (B, A), for the background
\* scorer and for the request-time scorer.
C9_ScoreSymmetric ==
    scored.kind \in {"bg", "req"} => scored.fwd = scored.rev

\* the ended match of userId that finished last, when userId has no active
\* match and no match of userId finished later
MostRecentEnded(userId) ==
    LET finished == { k \in 1 .. Len(privateMatch) :
                        /\ privateMatch[k].status # "active"
                        /\ userId \in {privateMatch[k].userOneId,
                                       privateMatch[k].userTwoId} }
    IN  IF ActiveMatchesOf(userId) # {} THEN {}
        ELSE { k \in finished :
                 /\ privateMatch[k].status = "ended"
                 /\ \A l \in finished :
                       The(privateMatch[l].endedAt) <= The(privateMatch[k].endedAt) }

\* C5: a RequestMatch by a user whose most recent match ended at T is
\* answered with the cooldown outcome, and leaves the pool and the handler
\* as they were, when made before T + 5 minutes; made at or after
\* T + 5 minutes it goes on to enqueue, and every request that goes on ends
\* with waiting or matched.
C5_CooldownEnforced ==
    [][ \A u \in Users :
          /\ ( /\ req[u].pc = "idle"
               /\ (req'[u] # req[u] \/ resp'[u] # resp[u])
               /\ MostRecentEnded(u) # {} ) =>
                LET T == The(privateMatch[The(MostRecentEnded(u))].endedAt)
                IN  IF now < T + 5 * 60 * 1000
                    THEN /\ resp'[u] = "cooldown"
                         /\ req'[u].pc = "idle"
                         /\ matchmaking_queue' = matchmaking_queue
                         /\ matchQueue' = matchQueue
                    ELSE /\ resp'[u] # "cooldown"
                         /\ req'[u].pc \in {"zadd", "enqueue"}
          /\ (req[u].pc # "idle" /\ req'[u].pc = "idle") =>
                resp'[u] \in {"waiting", "matched"} ]_vars

\* C5 witness: one user was refused for cooldown and is not in the pool,
\* another user, whose request read that last match, joined the pool at or
\* after the end of their cooldown.
C5_Witness ==
    \E u \in Users, v \in Users :
        /\ resp[u] = "cooldown"
        /\ EntriesOf(u) = {} /\ RowsOf(u) = {}
        /\ resp[v] = "waiting"
        /\ MostRecentEnded(v) # {}
        /\ LET end == The(privateMatch[The(MostRecentEnded(v))].endedAt)
                       + 5 * 60 * 1000
           IN  \E e \in EntriesOf(v) :
                   /\ e.lastMatchTime + 5 * 60 * 1000 = end
                   /\ e.timestampJoined >= end

\* the score C10 states for entries a and b at time t
TagSet(e) == { e.intentTagIds[k] : k \in 1 .. Len(e.intentTagIds) }
MatchedWithin7Days(a, b) ==
    \E k \in 1 .. Len(privateMatch) :
        /\ {privateMatch[k].userOneId, privateMatch[k].userTwoId}
              = {a.userId, b.userId}
        /\ now - privateMatch[k].matchedAt <= 7 * DAY_MS
ClaimedScore(a, b, t) ==
    (IF TagSet(a) \cap TagSet(b) # {} THEN 50 ELSE 0)
      + ((t - a.timestampJoined) \div 10000)
      + ((t - b.timestampJoined) \div 10000)
      + (IF Abs(a.timestampJoined - b.timestampJoined) < 2 * 60 * 1000
         THEN 10 ELSE 0)
      - (IF MatchedWithin7Days(a, b) THEN 40 ELSE 0)

\* C10: the background scorer returns 50 for intersecting tag sets, plus
\* floor(waitA/10s) + floor(waitB/10s), plus 10 when the join timestamps
\* differ by less than 2 minutes, minus 40 when a match between the two was
\* created within the last 7 days; entries joined at the same instant score
\* 10 (disjoint tags), 60 (a shared tag), 20 (shared tag, match 2 days ago).
C10_ScoreFormula ==
    scored.kind = "bg" =>
        LET a == scored.a
            b == scored.b
            sameInstant == a.timestampJoined = now /\ b.timestampJoined = now
            shared == TagSet(a) \cap TagSet(b) # {}
        IN  /\ scored.fwd = ClaimedScore(a, b, now)
            /\ (sameInstant /\ ~shared /\ privateMatch = <<>>) => scored.fwd = 10
            /\ (sameInstant /\ shared /\ privateMatch = <<>>) => scored.fwd = 60
            /\ (sameInstant /\ shared /\ MatchedWithin7Days(a, b)) => scored.fwd = 20

\* C10 witness: a pair with a shared tag, joined at the same instant, with a
\* match created 2 days ago, was scored 20.
C10_Witness ==
    /\ scored.kind = "bg"
    /\ scored.a.timestampJoined = now /\ scored.b.timestampJoined = now
    /\ TagSet(scored.a) \cap TagSet(scored.b) # {}
    /\ privateMatch # <<>>
    /\ privateMatch[1].matchedAt = now - 2 * DAY_MS
    /\ scored.fwd = 20

\* the rows a request-time scan works on: the fetched rows and the
\* requester's own row
ScanRows(userId) ==
    LET r == req[userId]
    IN  { r.waitingUsers[x].row : x \in 1 .. Len(r.waitingUsers) }
          \cup (IF r.existing # {} THEN r.existing
                ELSE { QueueRow(userId, userIntents(userId), now) })

\* the worker's scan of pass k selected a permitted pair of maximal score
WorkerSelectsBest(k) ==
    LET p == pass[k]
        pair == The(p.bestPair)
    IN  /\ IsPermitted(pair[1].userId, pair[2].userId)
        /\ \A x \in 1 .. Len(p.entries), y \in 1 .. Len(p.entries) :
              (x < y /\ IsPermitted(p.entries[x].userId, p.entries[y].userId))
                 => PairScore(p.entries[x], p.entries[y], p.passNow)
                       <= PairScore(pair[1], pair[2], p.passNow)

\* after the removal of pass k every other snapshot entry is still in the pool
WorkerLeavesOthers(k) ==
    LET p == pass[k]
        pair == The(p.bestPair)
    IN  \A x \in 1 .. Len(p.entries) :
           p.entries[x] \notin {pair[1], pair[2]}
              => p.entries[x] \in matchmaking_queue

\* the scan of userId's request selected a permitted pair, and no permitted
\* pair of its rows scores higher whichever of the two requests the match
RequestSelectsBest(userId) ==
    LET r == req[userId]
        chosen == The(r.bestMatch)
    IN  /\ IsPermitted(userId, chosen.userId)
        /\ \A a \in ScanRows(userId), b \in ScanRows(userId) :
              (a.userId # b.userId /\ IsPermitted(a.userId, b.userId))
                 => \/ CandidateScore(a.userId, a.intentTagIds, {a}, b)
                          <= r.bestScore
                    \/ CandidateScore(b.userId, b.intentTagIds, {b}, a)
                          <= r.bestScore

\* C8: when the scan of a pairing pass over a snapshot completes with a
\* selection, the selected pair is permitted and no permitted pair of the
\* snapshot scores higher; once the pair is removed, every snapshot entry
\* outside the pair is still in the pool.
C8_BestPairSelected ==
    /\ \A k \in Passes :
          /\ pass[k].pc = "create" => WorkerSelectsBest(k)
          /\ (pass[k].pc = "reap" /\ pass[k].bestPair # {})
                => WorkerLeavesOthers(k)
    /\ \A u \in Users :
          (routes = "db" /\ req[u].pc = "create") => RequestSelectsBest(u)

\* the part of C8 that concerns the background worker alone
C8_WorkerOnly ==
    \A k \in Passes :
        /\ pass[k].pc = "create" => WorkerSelectsBest(k)
        /\ (pass[k].pc = "reap" /\ pass[k].bestPair # {})
              => WorkerLeavesOthers(k)

\* the example of C8 in the worker: A (user 1) and B (user 2) joined at the
\* same instant, C (user 3) 100 s earlier, B-C blocked; A is matched with C
\* and B is still waiting
C8_WorkerExample ==
    /\ routes = "redis"
    /\ blockedUser = {<<2, 3>>}
    /\ pass[1].pc = "reap"
    /\ pass[1].bestPair # {}
    /\ pass[1].bestScore = 70
    /\ { The(pass[1].bestPair)[1].userId, The(pass[1].bestPair)[2].userId } = {1, 3}
    /\ \E e \in matchmaking_queue : e.userId = 2

\* entry a has waited 35 s and entry b 5 s when the worker scores them, they
\* share no tag and no match between them was created in the last 7 days
Scenario4 ==
    /\ scored.kind = "bg"
    /\ now - scored.a.timestampJoined = 35000
    /\ now - scored.b.timestampJoined = 5000
    /\ TagSet(scored.a) \cap TagSet(scored.b) = {}
    /\ ~MatchedWithin7Days(scored.a, scored.b)

\* C11 as stated: in Scenario 4 the total score of the pair is 3.
C11_Scenario4Total3 ==
    Scenario4 => scored.fwd = 3

\* C11: in Scenario 4 the wait bonus is floor(35/10) + floor(5/10) = 3, and
\* the total score is 13: the joins are 30 s apart, which is less than
\* 2 minutes, so the recency bonus of 10 is added to the wait bonus.
C11_Scenario4Total13 ==
    Scenario4 =>
        /\ ((now - scored.a.timestampJoined) \div 10000)
             + ((now - scored.b.timestampJoined) \div 10000) = 3
        /\ Abs(scored.a.timestampJoined - scored.b.timestampJoined) < 2 * 60 * 1000
        /\ scored.fwd = 3 + 10
        /\ scored.rev = 3 + 10

\* C11 witness: the worker's scorer was applied to the pair of Scenario 4
C11_Witness ==
    /\ Scenario4
    /\ scored.fwd = 13

\* the pair {a1, a2} is not after the pair {b1, b2} in the tie-break order:
\* earliest combined join timestamp, then the smaller pair of identifiers
TieBreakBefore(idsA, tsA, idsB, tsB) ==
    LET loA == IF idsA[1] < idsA[2] THEN idsA[1] ELSE idsA[2]
        hiA == IF idsA[1] < idsA[2] THEN idsA[2] ELSE idsA[1]
        loB == IF idsB[1] < idsB[2] THEN idsB[1] ELSE idsB[2]
        hiB == IF idsB[1] < idsB[2] THEN idsB[2] ELSE idsB[1]
    IN  \/ tsA < tsB
        \/ /\ tsA = tsB
           /\ (loA < loB \/ (loA = loB /\ hiA <= hiB))

\* the pair the worker's scan selected is first in the tie-break order among
\* the permitted pairs of the snapshot that have its score
WorkerTieBreak(k) ==
    LET p == pass[k]
        pair == The(p.bestPair)
    IN  \A x \in 1 .. Len(p.entries), y \in 1 .. Len(p.entries) :
           ( /\ x < y
             /\ IsPermitted(p.entries[x].userId, p.entries[y].userId)
             /\ PairScore(p.entries[x], p.entries[y], p.passNow) = p.bestScore )
           => TieBreakBefore(
                 <<pair[1].userId, pair[2].userId>>,
                 pair[1].timestampJoined + pair[2].timestampJoined,
                 <<p.entries[x].userId, p.entries[y].userId>>,
                 p.entries[x].timestampJoined + p.entries[y].timestampJoined)

\* the candidate the request's scan selected is first in the tie-break order
\* among the permitted candidates that have its score
RequestTieBreak(userId) ==
    LET r == req[userId]
        chosen == The(r.bestMatch)
        mine == IF r.existing # {} THEN The(r.existing).joinedAt ELSE now
    IN  \A x \in 1 .. Len(r.waitingUsers) :
           LET c == r.waitingUsers[x].row
           IN  ( /\ IsPermitted(userId, c.userId)
                 /\ CandidateScore(userId, userIntents(userId), r.existing, c)
                       = r.bestScore )
               => TieBreakBefore(<<userId, chosen.userId>>, mine + chosen.joinedAt,
                                 <<userId, c.userId>>, mine + c.joinedAt)

\* C12: when the scan of a pass completes with a selection while no match
\* has been created since the pool was read, the selected pair is, among
\* the permitted pairs with the same score, the one with the earliest
\* combined join timestamp and, among those, the first by user identifiers,
\* whatever the order in which the entries were enumerated.
C12_TieBreak ==
    (\A m \in 1 .. Len(privateMatch) : privateMatch[m].status # "active") =>
        /\ \A k \in Passes : pass[k].pc = "create" => WorkerTieBreak(k)
        /\ \A u \in Users :
              (routes = "db" /\ req[u].pc = "create") => RequestTieBreak(u)

\* the part of C12 that concerns the background worker alone
C12_WorkerOnly ==
    (\A m \in 1 .. Len(privateMatch) : privateMatch[m].status # "active") =>
        \A k \in Passes : pass[k].pc = "create" => WorkerTieBreak(k)

\* C13: a match row that has left status active is never changed again: no
\* step of an end or block handler changes the status, end timestamp or
\* duration of a row whose status is ended or blocked.
C13_TransitionsOnce ==
    [][ \A m \in 1 .. Len(privateMatch) :
          privateMatch[m].status # "active"
             => privateMatch'[m] = privateMatch[m] ]_vars

\* userId takes part in match matchId and the match is active
ActiveParticipant(userId, matchId) ==
    /\ matchId \in 1 .. Len(privateMatch)
    /\ userId \in {privateMatch[matchId].userOneId, privateMatch[matchId].userTwoId}
    /\ privateMatch[matchId].status = "active"

\* C14: an EndMatch call by a participant on an active match goes on to
\* the update, which sets the status to ended, stamps the time of the call
\* as end time and records floor((end time - creation time) / 1 s), a
\* non-negative duration, leaving every other row as it was; a call on a
\* match that is not active, or by a user who is not a participant, fails
\* and leaves the table unchanged.
C14_EndMatchContract ==
    [][ \A u \in Users :
          /\ (ops[u].pc = "idle" /\ ops'[u].pc = "endUpdate") =>
                /\ ActiveParticipant(u, ops'[u].matchId)
                /\ ops'[u].endedAt = now
                /\ privateMatch' = privateMatch
          /\ (ops[u].pc = "idle" /\ ops'[u] # ops[u] /\ ops'[u].last = "notFound") =>
                /\ ~ActiveParticipant(u, ops'[u].matchId)
                /\ ops'[u].pc = "idle"
                /\ privateMatch' = privateMatch
          /\ (ops[u].pc = "endUpdate" /\ ops'[u] # ops[u]) =>
                LET m == ops[u].matchId
                    end == ops[u].endedAt
                    duration == (end - privateMatch[m].matchedAt) \div 1000
                IN  /\ ops'[u].pc = "idle" => ops'[u].last = "ended"
                    /\ duration >= 0
                    /\ privateMatch' =
                          [privateMatch EXCEPT ![m].status = "ended",
                                               ![m].endedAt = {end},
                                               ![m].durationSeconds = {duration}] ]_vars

\* C14 witness: user 1 ended its match with user 3, created 1.5 s before the
\* call, with a recorded duration of 1 s, and the call of user 2, who is not
\* a participant, failed.
C14_Witness ==
    /\ ops[1].last = "ended"
    /\ ops[2].last = "notFound"
    /\ ops[2].matchId = 1
    /\ Len(privateMatch) = 1
    /\ privateMatch[1].userTwoId = 3
    /\ privateMatch[1].status = "ended"
    /\ privateMatch[1].endedAt = {privateMatch[1].matchedAt + 1500}
    /\ privateMatch[1].durationSeconds = {1}

\* C15: a cancel completes whether or not the caller has an entry; in the
\* state it completes in the pool holds no entry of the caller, and the
\* steps of a cancel leave the entries of every other user as they were.
C15_CancelSafe ==
    [][ \A u \in Users :
          /\ (ops'[u].last = "cancelled" /\ ops[u].last # "cancelled") =>
                /\ ops'[u].pc = "idle"
                /\ { e \in matchmaking_queue' : e.userId = u } = {}
                /\ { r \in matchQueue' : r.userId = u } = {}
          /\ (ops'[u] # ops[u] /\ ops'[u].last \in {"pending", "cancelled"}) =>
                /\ { e \in matchmaking_queue' : e.userId # u }
                      = { e \in matchmaking_queue : e.userId # u }
                /\ { r \in matchQueue' : r.userId # u }
                      = { r \in matchQueue : r.userId # u } ]_vars

\* C16: while a user has a waiting entry, no step of that user's
\* RequestMatch adds an entry for the user or changes the join timestamp or
\* the tags of the existing one.
C16_EnqueueWhileWaiting ==
    [][ \A u \in Users :
          (req'[u] # req[u] \/ resp'[u] # resp[u]) =>
             /\ EntriesOf(u) # {} =>
                   { e \in matchmaking_queue' : e.userId = u } \subseteq EntriesOf(u)
             /\ RowsOf(u) # {} =>
                   { r \in matchQueue' : r.userId = u } \subseteq RowsOf(u) ]_vars

\* C17: when an invocation of the worker, whose last part is the reaper,
\* returns, the pool holds no entry that has waited more than 2 minutes,
\* whatever the number of entries the pool held.
C17_Reaping ==
    [][ \A k \in DOMAIN pass :
          (pass'[k] # pass[k] /\ pass'[k].pc \in {"idle", "returned"}) =>
             \A e \in matchmaking_queue' :
                 now - e.timestampJoined <= 2 * 60 * 1000 ]_vars

\* the invocations of the worker that have started and not yet returned
RunningPasses == { k \in DOMAIN pass : pass[k].pc \notin {"idle", "returned"} }

\* C18: at most one pairing pass is in progress on the pool at any time: a
\* trigger that fires while a pass is suspended on a lookup starts nothing.
C18_SinglePass ==
    Cardinality(RunningPasses) <= 1

\* C19: a pass in which a lookup fails ends at that point; the step creates
\* no match and removes no entry, every user of its snapshot that was
\* waiting is still waiting, and the worker can start a pass again, which
\* reads those entries.
C19_FailClosed ==
    [][ \A k \in DOMAIN pass :
          (pass[k].pc = "scan" /\ pass'[k].pc = "failed") =>
             /\ privateMatch' = privateMatch
             /\ matchmaking_queue' = matchmaking_queue
             /\ matchQueue' = matchQueue
             /\ \A x \in 1 .. Len(pass[k].entries) :
                   pass[k].entries[x] \in matchmaking_queue
                      => pass[k].entries[x] \in matchmaking_queue'
             /\ pass'[k].bestPair = {}
             /\ pass'[k].pc \in {"idle", "returned", "failed"} ]_vars

\* C19 witness: a pass failed on a lookup, and the next pass read the
\* waiting users again and created the match of two of them.
C19_Witness ==
    \E k \in DOMAIN pass :
        /\ pass[k].afterFailure
        /\ pass[k].pc = "remove"
        /\ LET pair == The(pass[k].bestPair)
               m == privateMatch[Len(privateMatch)]
           IN  /\ m.status = "active"
               /\ m.userOneId = pair[1].userId
               /\ m.userTwoId = pair[2].userId
               /\ pair[1] \in matchmaking_queue
               /\ pair[2] \in matchmaking_queue

\* the active matches between users a and b
ActiveBetween(table, a, b) ==
    { m \in 1 .. Len(table) :
        /\ table[m].status = "active"
        /\ {table[m].userOneId, table[m].userTwoId} = {a, b} }

\* C20: when a block of t by u completes, every match between u and t that
\* was active has status blocked and an end time, so that no active match
\* between the two is left.
C20_BlockEndsMatch ==
    [][ \A u \in Users, t \in Users :
          (<<u, t>> \notin blockedUser /\ <<u, t>> \in blockedUser') =>
             /\ ActiveBetween(privateMatch', u, t) = {}
             /\ \A m \in ActiveBetween(privateMatch, u, t) :
                   /\ privateMatch'[m].status = "blocked"
                   /\ privateMatch'[m].endedAt = {now} ]_vars

----------------------------------------------------------------------------
(* The safety filter of both pairing paths on a drawn pool with drawn       *)
(* safety facts: up to two facts among blocks, reports (pending or resolved *)
(* by a moderator) and suspensions of waiting users.  The matchQueue the    *)
(* request handler starts from is at rest (rows that wait together are      *)
(* vetoed for each other); the sorted set of the worker is any pool.        *)

VetoJoinTime(u) == T0 - 10000 * u

VetoFacts ==
    { f \in [b : SUBSET PairsOf(PoolUsers), r : SUBSET PairsOf(PoolUsers),
             s : SUBSET {2, 3}] :
        Cardinality(f.b) + Cardinality(f.r) + Cardinality(f.s) <= 2 }

InitVeto ==
    /\ routes \in {"redis", "db"}
    /\ now = T0
    /\ \E f \in VetoFacts, resolved \in SUBSET PairsOf(PoolUsers),
          S \in SUBSET PoolUsers :
          /\ resolved \subseteq f.r
          /\ blockedUser = f.b
          /\ report = { ReportRow(p[1], p[2],
                                  IF p \in resolved THEN "resolved" ELSE "pending") :
                          p \in f.r }
          /\ suspended = f.s
          /\ IF routes = "db"
             THEN /\ \A p \in PairsOf(S) : Vetoed(f, p[1], p[2])
                  /\ matchQueue =
                        { QueueRow(u, userIntents(u), VetoJoinTime(u)) : u \in S }
                  /\ matchmaking_queue = {}
             ELSE /\ matchmaking_queue =
                        { QueueEntry(u, userIntents(u), VetoJoinTime(u), 0) : u \in S }
                  /\ matchQueue = {}
    /\ privateMatch = <<>>
    /\ pass = [k \in Passes |-> IdlePass]
    /\ req = [u \in Users |-> IF routes = "redis" THEN IdleReq ELSE IdleDbReq]
    /\ resp = [u \in Users |-> "none"]
    /\ scored = NoScore
    /\ ops = [u \in Users |-> IdleOp]
    /\ privateMessage = {}
    /\ supportSessionsCount = [u \in AllUsers |-> 0]

NextVeto ==
    \/ \E u \in Users : DbCheck(u)
    \/ \E u \in Users : DbEnqueue(u)
    \/ \E u \in Users : DbScan(u)
    \/ \E u \in Users : DbEval(u)
    \/ \E u \in Users : DbCreateMatch(u)
    \/ \E u \in Users : DbDelete(u)
    \/ \E u \in Users, t \in Users : Block(u, t)
    \/ \E u \in Users, t \in Users : Report(u, t)
    \/ \E u \in Users : Suspend(u)
    \/ \E r \in report : ResolveReport(r)
    \/ \E k \in Passes : PassStart(k)
    \/ \E k \in Passes : PassEval(k)
    \/ \E k \in Passes : PassCreate(k)
    \/ \E k \in Passes : PassRemove(k)
    \/ \E k \in Passes : PassReap(k)

SpecVeto == InitVeto /\ [][NextVeto]_vars

\* the verdict of the safety filter on candidate c of u's request: the
\* candidate's user was suspended when the rows were fetched, or a block or
\* a report exists between the two in either direction
FilterVetoes(u, c) ==
    \/ c.isSuspended
    \/ <<u, c.row.userId>> \in blockedUser
    \/ <<c.row.userId, u>> \in blockedUser
    \/ ReportsFrom(u, c.row.userId) \cup ReportsFrom(c.row.userId, u) # {}

\* C21: a candidate the safety filter vetoes is skipped: the scan moves to
\* the next candidate with its selection unchanged; a scan in which every
\* candidate was vetoed ends with the waiting outcome, never with an error
\* or a match; no step of the scan creates a match or changes the pool, so
\* the requester's row and the candidates' rows stay where they are.
C21_SilentVeto ==
    [][ \A u \in Users :
          (routes = "db" /\ req[u].pc = "eval" /\ req'[u] # req[u]) =>
             LET r == req[u]
                 c == r.waitingUsers[r.idx]
                 last == r.idx = Len(r.waitingUsers)
             IN  /\ privateMatch' = privateMatch
                 /\ matchQueue' = matchQueue
                 /\ (FilterVetoes(u, c) /\ ~last) =>
                       /\ req'[u].pc = "eval"
                       /\ req'[u].idx = r.idx + 1
                       /\ req'[u].bestMatch = r.bestMatch
                       /\ resp'[u] = resp[u]
                 /\ (FilterVetoes(u, c) /\ last /\ r.bestMatch = {}) =>
                       /\ req'[u].pc = "idle"
                       /\ resp'[u] = "waiting"
                 /\ req'[u].pc = "idle" =>
                       /\ resp'[u] = "waiting"
                       /\ FilterVetoes(u, c)
                       /\ r.bestMatch = {}
                 /\ req'[u].pc = "create" => req'[u].bestMatch # {} ]_vars

\* C21 witness: user 1 requested while users 2 and 3 had been waiting, both
\* vetoed for user 1; the request was answered with waiting, no match exists
\* and the three rows are in the pool.
C21_Witness ==
    /\ routes = "db"
    /\ resp[1] = "waiting"
    /\ req[1].pc = "idle"
    /\ privateMatch = <<>>
    /\ RowsOf(1) # {}
    /\ \A v \in {2, 3} :
          /\ ~IsPermitted(1, v)
          /\ \E q \in RowsOf(v) : q.joinedAt = VetoJoinTime(v)

\* C22: the reaping step of a pass sends the wait-timed-out signal to no
\* user of the pair that pass matched.
C22_ReaperSkipsMatched ==
    [][ \A k \in DOMAIN pass :
          (pass[k].pc = "reap" /\ pass'[k].pc = "idle" /\ pass[k].bestPair # {}) =>
             LET pair == The(pass[k].bestPair)
             IN  pass'[k].signalled \cap {pair[1].userId, pair[2].userId} = {} ]_vars

\* C23: the request-time scorer and the background scorer give the same
\* score to the same pair of entries at the same time.
C23_OneScoringConvention ==
    scored.kind = "both" => scored.fwd = scored.rev

\* the two scorers agree whenever the requester's own wait is under 10 s
C23_AgreeWithoutRequesterWait ==
    (scored.kind = "both" /\ now - scored.a.timestampJoined < 10000)
        => scored.fwd = scored.rev

\* the entries pass k read when it started
SnapshotOf(k) == { pass[k].entries[x] : x \in 1 .. Len(pass[k].entries) }

\* the rows of other users the scan of userId's request fetched
FetchedRows(userId) ==
    { req[userId].waitingUsers[x].row : x \in 1 .. Len(req[userId].waitingUsers) }

\* the worker pairs snapshot entries only and its steps remove no entry
\* that is not in its snapshot
WorkerSnapshotIsolation ==
    \A k \in DOMAIN pass :
        (pass[k].pc \in {"scan", "create", "remove", "reap"} /\ pass'[k] # pass[k]) =>
            /\ \A e \in matchmaking_queue :
                  e \notin SnapshotOf(k) => e \in matchmaking_queue'
            /\ pass'[k].bestPair # {} =>
                  /\ The(pass'[k].bestPair)[1] \in SnapshotOf(k)
                  /\ The(pass'[k].bestPair)[2] \in SnapshotOf(k)

\* the request-time scan selects among the rows it fetched and its steps
\* remove no row of another user that it did not fetch
RequestSnapshotIsolation ==
    \A u \in Users :
        (routes = "db" /\ req[u].pc \in {"eval", "create", "delete"}
            /\ req'[u] # req[u]) =>
            /\ \A r \in matchQueue :
                  (r.userId # u /\ r \notin FetchedRows(u)) => r \in matchQueue'
            /\ req'[u].bestMatch \subseteq FetchedRows(u)

\* C24: a pairing pass pairs only entries of the snapshot it took, and an
\* entry enqueued after the snapshot is not removed by any step of that
\* pass, so it is in the pool when the pass ends.
C24_SnapshotIsolation ==
    [][ WorkerSnapshotIsolation /\ RequestSnapshotIsolation ]_vars

\* the part of C24 that concerns the background worker alone
C24_WorkerOnly ==
    [][ WorkerSnapshotIsolation ]_vars

----------------------------------------------------------------------------
(* The worker alone on a drawn sorted set, invoked again and again by its   *)
(* interval.  Every awaited lookup, create and zrem of an invocation        *)
(* completes, and the interval keeps firing, so each step of the worker     *)
(* that stays possible is eventually taken.                                 *)

InitProgress ==
    /\ routes = "redis"
    /\ now = T0
    /\ \E f \in FactChoices, S \in SUBSET PoolUsers,
          joined \in [PoolUsers -> PoolJoinTimes] :
          /\ blockedUser = f.b
          /\ report = { ReportRow(p[1], p[2], "pending") : p \in f.r }
          /\ suspended = f.s
          /\ Cardinality(S) >= 1
          /\ \A u \in PoolUsers \ S : joined[u] = T0
          /\ matchmaking_queue =
                { QueueEntry(u, userIntents(u), joined[u], 0) : u \in S }
    /\ matchQueue = {}
    /\ privateMatch \in
          {<<>>} \cup
          { << MatchRow(p[1], p[2], "ended", T0 - 2 * DAY_MS,
                        {T0 - 2 * DAY_MS + 60000}) >> : p \in PairsOf(PoolUsers) }
    /\ pass = [k \in Passes |-> IdlePass]
    /\ req = [u \in Users |-> IdleReq]
    /\ resp = [u \in Users |-> "none"]
    /\ scored = NoScore
    /\ ops = [u \in Users |-> IdleOp]
    /\ privateMessage = {}
    /\ supportSessionsCount = [u \in AllUsers |-> 0]

NextProgress ==
    \/ \E k \in Passes : PassStart(k)
    \/ \E k \in Passes : PassEval(k)
    \/ \E k \in Passes : PassCreate(k)
    \/ \E k \in Passes : PassRemove(k)
    \/ \E k \in Passes : PassReap(k)

SpecProgress ==
    /\ InitProgress
    /\ [][NextProgress]_vars
    /\ \A k \in Passes :
          /\ WF_vars(PassStart(k))
          /\ WF_vars(PassEval(k))
          /\ WF_vars(PassCreate(k))
          /\ WF_vars(PassRemove(k))
          /\ WF_vars(PassReap(k))

\* the snapshot of pass k holds a pair of entries that may be paired
SnapshotHasPermittedPair(k) ==
    \E x \in 1 .. Len(pass[k].entries), y \in 1 .. Len(pass[k].entries) :
        /\ x < y
        /\ IsPermitted(pass[k].entries[x].userId, pass[k].entries[y].userId)

\* user u takes part in an active match
Matched(u) ==
    \E m \in 1 .. Len(privateMatch) :
        /\ privateMatch[m].status = "active"
        /\ u \in {privateMatch[m].userOneId, privateMatch[m].userTwoId}

\* a pass whose snapshot holds a permitted pair goes on to create a match,
\* a pass whose snapshot holds none creates nothing, and a pass creates its
\* match in one step, once
PassCreatesOneMatch ==
    \A k \in DOMAIN pass :
        /\ (pass[k].pc = "scan" /\ pass'[k].pc # "scan") =>
              (pass'[k].pc = "create" <=> SnapshotHasPermittedPair(k))
        /\ (pass[k].pc = "create" /\ pass'[k] # pass[k]) =>
              /\ pass'[k].pc = "remove"
              /\ Len(privateMatch') = Len(privateMatch) + 1
              /\ privateMatch'[Len(privateMatch')].status = "active"
        /\ (pass[k].pc # "create" /\ pass'[k] # pass[k]) =>
              /\ privateMatch' = privateMatch
              /\ pass[k].pc \in {"remove", "reap"} => pass'[k].pc \in {"reap", "idle"}

AllReportsResolved(a, b) ==
    LET between == ReportsFrom(a, b) \cup ReportsFrom(b, a)
    IN  between # {} /\ \A r \in between : r.status = "resolved"

\* C26: when the safety filter examines a pair between whom every report
\* has been resolved, with no block between them and neither suspended, it
\* permits the pair: the scan takes the pair as its selection when it has
\* none yet.
C26_ResolvedReportsPermit ==
    [][ /\ \A k \in DOMAIN pass :
             (pass[k].pc = "scan" /\ pass'[k] # pass[k] /\ pass[k].bestPair = {}) =>
                LET userA == pass[k].entries[pass[k].i]
                    userB == pass[k].entries[pass[k].j]
                IN  ( /\ AllReportsResolved(userA.userId, userB.userId)
                      /\ IsPermitted(userA.userId, userB.userId) )
                    => pass'[k].bestPair = {<<userA, userB>>}
        /\ \A u \in Users :
             (routes = "db" /\ req[u].pc = "eval" /\ req'[u] # req[u]
                 /\ req[u].bestMatch = {}) =>
                LET c == req[u].waitingUsers[req[u].idx]
                IN  ( /\ AllReportsResolved(u, c.row.userId)
                      /\ IsPermitted(u, c.row.userId)
                      /\ ~c.isSuspended )
                    => req'[u].bestMatch = {c.row} ]_vars

\* C27: the two participants of every match row are distinct users.
C27_NoSelfMatch ==
    \A m \in 1 .. Len(privateMatch) :
        privateMatch[m].userOneId # privateMatch[m].userTwoId

\* the part of C27 that concerns the request-time pairing of the DB routes
C27_RequestOnly ==
    routes = "db" => C27_NoSelfMatch

\* no request handler and no invocation of the worker is in progress (the
\* cancel handlers of this specification run in one step)
Quiescent ==
    /\ \A u \in Users : req[u].pc = "idle"
    /\ \A k \in DOMAIN pass : pass[k].pc \in {"idle", "returned", "failed"}

\* userId has a waiting entry that is not older than the maximum wait
LiveEntry(userId) ==
    \/ \E e \in EntriesOf(userId) : now - e.timestampJoined <= 2 * 60 * 1000
    \/ \E r \in RowsOf(userId) : now - r.joinedAt <= 2 * 60 * 1000

\* C28: whenever no request, cancel or pairing pass is in progress, no user
\* has both a live waiting entry and an active match; and a request by a
\* user who has an active match when the handler looks it up adds nothing
\* to the pool.
C28_WaitingXorMatched ==
    /\ [](Quiescent => \A u \in Users : ~(LiveEntry(u) /\ ActiveMatchesOf(u) # {}))
    /\ [][ \A u \in Users :
             (req[u].pc = "idle" /\ ActiveMatchesOf(u) # {}
                 /\ (req'[u] # req[u] \/ resp'[u] # resp[u])) =>
                /\ req'[u].pc = "idle"
                /\ matchmaking_queue' = matchmaking_queue
                /\ matchQueue' = matchQueue ]_vars

\* the second half of C28 alone
C28_RequestWhileMatched ==
    [][ \A u \in Users :
          (req[u].pc = "idle" /\ ActiveMatchesOf(u) # {}
              /\ (req'[u] # req[u] \/ resp'[u] # resp[u])) =>
             /\ req'[u].pc = "idle"
             /\ matchmaking_queue' = matchmaking_queue
             /\ matchQueue' = matchQueue ]_vars

\* the users of match row m
Participants(m) == {privateMatch[m].userOneId, privateMatch[m].userTwoId}

\* C29: whenever a private message is persisted, its sender is one of the
\* two users of its match and the match is active, for the socket event
\* and for the HTTP fallback.
C29_MessagesInsideMatch ==
    [][ \A r \in privateMessage' \ privateMessage :
          /\ r.matchId \in 1 .. Len(privateMatch)
          /\ r.senderId \in Participants(r.matchId)
          /\ privateMatch[r.matchId].status = "active" ]_vars

\* the HTTP fallback persists messages of participants only
C29_HttpParticipantsOnly ==
    [][ \A u \in Users :
          (ops[u].pc = "sendCreate" /\ ops[u].via = "http"
              /\ ops'[u] # ops[u]) =>
             /\ u \in Participants(ops[u].matchId)
             /\ privateMessage' = privateMessage \cup
                   { [matchId |-> ops[u].matchId, senderId |-> u] } ]_vars

\* the matches with status ended that user u took part in
EndedCount(u) ==
    Cardinality({ m \in 1 .. Len(privateMatch) :
                    /\ privateMatch[m].status = "ended"
                    /\ u \in Participants(m) })

\* C30: whichever of the two end paths ended a match, once no end handler
\* is in progress the match row has status ended with an end time and a
\* duration, and the support-session counter of every user has been
\* incremented exactly once for each ended match the user took part in.
C30_EquivalentEndPaths ==
    (\A u \in Users : ops[u].pc = "idle") =>
        /\ \A m \in 1 .. Len(privateMatch) :
              privateMatch[m].status = "ended" =>
                 /\ privateMatch[m].endedAt # {}
                 /\ privateMatch[m].durationSeconds # {}
        /\ \A u \in AllUsers : supportSessionsCount[u] = EndedCount(u)

\* the match row is the same for both paths: only the counters differ
C30_SameMatchRecord ==
    (\A u \in Users : ops[u].pc = "idle") =>
        \A m \in 1 .. Len(privateMatch) :
            privateMatch[m].status = "ended" =>
               /\ privateMatch[m].endedAt # {}
               /\ privateMatch[m].durationSeconds # {}

====
